---- MODULE Spec2Model ----
(***************************************************************************)
(* A model of my_logging.py: the `logger` decorator (the sink adapter built *)
(* by _decorate and the instrumented wrapper) and get_currencies.           *)
(*                                                                          *)
(* Text is modelled as a sequence of string tokens, so that tagging,        *)
(* quoting and line termination are things a check can get wrong.           *)
(***************************************************************************)
EXTENDS Integers, Sequences, FiniteSets, TLC

\* ------------------------------------------------------------------ bounds
\* Number of invocations of the wrapped callable (they may run concurrently).
NCalls == 2
\* Number of lock-step calls made on the Writer-bound / Logger-bound pair.
MaxPairCalls == 3
\* Longest list of currency codes requested from get_currencies.
MaxCodes == 2

Calls == 1..NCalls

\* ------------------------------------------------------- Python values
\* A value is [ty, s]: its type and its literal text.
PyInt(s) == [ty |-> "int", s |-> s]
PyStr(s) == [ty |-> "str", s |-> s]
PyNone == [ty |-> "NoneType", s |-> "None"]
\* An object whose __repr__ raises.
PyBadRepr == [ty |-> "badrepr", s |-> "obj"]

\* Inputs the wrapped callable is called with (one positional argument).
Inputs == {PyInt("42"), PyStr("abc")}
\* Values the target may return.
Results == {PyInt("42"), PyBadRepr}

\* repr(v): an int prints as its digits, a str in quotes.
ReprOk(v) == v.ty # "badrepr"
Repr(v) == IF v.ty = "str" THEN <<"'", v.s, "'">> ELSE <<v.s>>

\* ------------------------------------------------------------ failures
\* A raised failure is [kind, msg].
Failure(k, m) == [kind |-> k, msg |-> m]
\* Kinds derived from Exception; KeyboardInterrupt (like SystemExit) derives
\* from BaseException only.
ExceptionKinds == {"ValueError", "KeyError", "ConnectionError", "AttributeError", "RuntimeError"}
IsException(e) == e.kind \in ExceptionKinds

\* Failures the target may raise.
TargetFailures == {Failure("ValueError", "test"), Failure("KeyboardInterrupt", "")}

\* str(e): the message, except that KeyError shows the repr of its argument.
StrExc(e) == IF e.kind = "KeyError" THEN <<"'", e.msg, "'">> ELSE <<e.msg>>

\* Outcome of running the target (or of a whole wrapped call).
NoFailure == Failure("", "")
NoOutcome == [t |-> "none", v |-> PyNone, e |-> NoFailure]
Returned(v) == [t |-> "return", v |-> v, e |-> NoFailure]
Raised(e) == [t |-> "raise", v |-> PyNone, e |-> e]
TargetOutcomes == {Returned(v) : v \in Results} \cup {Raised(e) : e \in TargetFailures}
\* The outcomes tried on the pair of sinks: a str result and a KeyError too.
PairOutcomes == TargetOutcomes \cup {Returned(PyStr("abc")), Raised(Failure("KeyError", "USD"))}

\* ------------------------------------------------------------- handles
\* The objects passed as `handle`, by what they are and expose.
\*   Logger     an instance of logging.Logger (info, error)
\*   Stream     io.StringIO / sys.stdout (write)
\*   DuckLogger exposes info and error, is no logging.Logger, has no write
\*   DuckBoth   exposes info, error and write, is no logging.Logger
\*   Neither    exposes none of them
HandleKinds == {"Logger", "Stream", "DuckLogger", "DuckBoth", "Neither"}
IsLoggerInstance(h) == h = "Logger"
HasInfoError(h) == h \in {"Logger", "DuckLogger", "DuckBoth"}
HasWrite(h) == h \in {"Stream", "DuckBoth"}
HasMethod(h, m) == IF m = "write" THEN HasWrite(h) ELSE HasInfoError(h)

\* ------------------------------------------------------------ messages
FnName == "f"

\* f"Calling {fn.__name__} with args={args}, kwargs={kwargs}" for args = (x,).
StartMsg(x) ==
    <<"Calling ", FnName, " with args=", "(">> \o Repr(x) \o <<",)", ", kwargs=", "{}">>

\* f"{fn.__name__} returned {result!r}"
ReturnedMsg(r) == <<FnName, " returned ">> \o Repr(r)

\* f"Function {fn.__name__} raised {type(e).__name__}: {e}"
RaisedMsg(e) == <<"Function ", FnName, " raised ", e.kind, ": ">> \o StrExc(e)

\* -------------------------------------------------------- sink adapter
\* Mutant: the branch is chosen by what the handle exposes.
ChooseBranchByCapability(h) == IF HasInfoError(h) THEN "logger" ELSE "write"

\* The branch _decorate takes for a handle.
ChooseBranch(h) == IF IsLoggerInstance(h) THEN "logger" ELSE "write"

\* What one info(msg) / error(msg) hands to the handle: the method and its text.
InfoCall(br, msg) ==
    IF br = "logger" THEN [method |-> "info", text |-> msg]
    ELSE [method |-> "write", text |-> <<"INFO: ">> \o msg \o <<"\n">>]

\* Mutant: the write branch tags an error record as INFO.
ErrorCallInfoTag(br, msg) ==
    IF br = "logger" THEN [method |-> "error", text |-> msg]
    ELSE [method |-> "write", text |-> <<"INFO: ">> \o msg \o <<"\n">>]

ErrorCall(br, msg) ==
    IF br = "logger" THEN [method |-> "error", text |-> msg]
    ELSE [method |-> "write", text |-> <<"ERROR: ">> \o msg \o <<"\n">>]

\* The failure of a record emission: formatting raised, the handle lacks the
\* method, or the handle's method raised (a closed stream); "ok" otherwise.
FormatFailure == Failure("RuntimeError", "repr")
MissingMethod == Failure("AttributeError", "method")
SinkFailure == Failure("ValueError", "closed")

EmitFault(h, call, fmtOk, accepts) ==
    IF ~fmtOk THEN Raised(FormatFailure)
    ELSE IF ~HasMethod(h, call.method) THEN Raised(MissingMethod)
    ELSE IF ~accepts THEN Raised(SinkFailure)
    ELSE NoOutcome

\* ---------------------------------------------------------------- state
VARIABLES
    handle,     \* the handle bound at wrap time, "unbound" before
    branch,     \* the adapter branch chosen by _decorate: "none" | "logger" | "write"
    sink,       \* calls received by the handle: [method, text, by (the call, ghost)]
    pc,         \* per call: where the wrapper is
    arg,        \* per call: the argument
    out,        \* per call: what the target did
    caught,     \* per call: the failure bound by `except Exception as e`
    final,      \* per call: what the caller of the wrapper observes
    fault,      \* per call: whether a record emission of this call failed (ghost)
    wsink,      \* pair model: calls received by the Writer
    lsink,      \* pair model: calls received by the Logger
    pairHist,   \* pair model: the calls made so far, as <<input, target outcome>>
    gcIn,       \* get_currencies: the request and the response
    gcOut       \* get_currencies: its outcome

wrapVars == <<handle, branch>>
callVars == <<sink, pc, arg, out, caught, final, fault>>
pairVars == <<wsink, lsink, pairHist>>
gcVars == <<gcIn, gcOut>>
vars == <<handle, branch, sink, pc, arg, out, caught, final, fault,
          wsink, lsink, pairHist, gcIn, gcOut>>

\* ------------------------------------------------- decoding sink entries
\* The level and the message of a call the handle received: a Writer's text
\* carries them as a tag and a line, a Logger's method and argument are them.
TagLevel(tag) == IF tag = "INFO: " THEN "INFO" ELSE IF tag = "ERROR: " THEN "ERROR" ELSE "?"
Level(en) ==
    IF en.method = "info" THEN "INFO"
    ELSE IF en.method = "error" THEN "ERROR"
    ELSE IF Len(en.text) >= 2 /\ en.text[Len(en.text)] = "\n" THEN TagLevel(en.text[1])
    ELSE "?"
Msg(en) ==
    IF en.method = "write"
    THEN (IF Len(en.text) >= 2 THEN SubSeq(en.text, 2, Len(en.text) - 1) ELSE <<>>)
    ELSE en.text
\* The k-th token of the message, "" when it has none.
MsgLen(en) == IF en.method = "write" THEN Len(en.text) - 2 ELSE Len(en.text)
MsgAt(en, k) ==
    IF k > MsgLen(en) THEN ""
    ELSE IF en.method = "write" THEN en.text[k + 1] ELSE en.text[k]
IsStartRecord(en) == MsgAt(en, 1) = "Calling "
IsSuccessRecord(en) == MsgAt(en, 2) = " returned "
IsErrorRecord(en) == MsgAt(en, 1) = "Function " /\ MsgAt(en, 3) = " raised "

\* Positions in the sink of the records call c put there.
StartsOf(c) == {i \in 1..Len(sink) : sink[i].by = c /\ IsStartRecord(sink[i])}
SuccessesOf(c) == {i \in 1..Len(sink) : sink[i].by = c /\ IsSuccessRecord(sink[i])}
ErrorsOf(c) == {i \in 1..Len(sink) : sink[i].by = c /\ IsErrorRecord(sink[i])}
OutcomesOf(c) == SuccessesOf(c) \cup ErrorsOf(c)
RecordsOf(c) == {i \in 1..Len(sink) : sink[i].by = c}

\* ------------------------------------------------------------- wrapping
InitWrapper ==
    /\ handle = "unbound"
    /\ branch = "none"
    /\ sink = <<>>
    /\ pc = [c \in Calls |-> "idle"]
    /\ arg = [c \in Calls |-> PyNone]
    /\ out = [c \in Calls |-> NoOutcome]
    /\ caught = [c \in Calls |-> NoFailure]
    /\ final = [c \in Calls |-> NoOutcome]
    /\ fault = [c \in Calls |-> FALSE]

InitPair ==
    /\ wsink = <<>>
    /\ lsink = <<>>
    /\ pairHist = <<>>

\* _decorate(fn) with `handle` = h: no check of h beyond isinstance; the
\* wrapper is returned for every h.
Decorate(h) ==
    /\ handle = "unbound"
    /\ handle' = h
    /\ branch' = ChooseBranch(h)
    /\ UNCHANGED <<callVars, pairVars, gcVars>>

\* @logger: func is given, handle is the default sys.stdout.
LoggerBare == Decorate("Stream")

\* @logger(handle=h): func is None, _decorate is returned and applied.
LoggerWith == \E h \in HandleKinds : Decorate(h)

\* ------------------------------------------------------------- wrapper
\* Mutant: the wrapper enters the try without emitting the start record.
EntrySkipsStart == "L52"
\* Where a call of the wrapper starts: the start record, line 50.
EntryPoint == "L50"
\* Where the wrapper goes once the start record is emitted: the try, line 52.
AfterStart == "L52"
\* Mutant: the wrapper logs the result and returns None.
ReturnNone(r) == Returned(PyNone)
\* `return result`, line 55.
WrapperReturn(r) == Returned(r)
\* Mutant: the handler raises a new failure carrying the message.
RaiseWrapped(e) == Raised(Failure("RuntimeError", e.msg))
\* `raise`, line 59: the caught failure itself.
Reraise(e) == Raised(e)
\* Mutant: the except clause catches nothing.
CatchesNothing(e) == FALSE
\* Whether `except Exception` catches what the try block raised.
Catches(e) == IsException(e)
\* Mutant: the result is kept in one slot shared by all calls.
SharedResult(c) == out[1].v
\* `result`, a local of the call's own frame.
LocalResult(c) == out[c].v

Put(call, c) == Append(sink, [method |-> call.method, text |-> call.text, by |-> c])

\* wrapper(*args, **kwargs) is entered with args = (x,).
Invoke(c, x) ==
    /\ branch # "none"
    /\ pc[c] = "idle"
    /\ pc' = [pc EXCEPT ![c] = EntryPoint]
    /\ arg' = [arg EXCEPT ![c] = x]
    /\ UNCHANGED <<wrapVars, sink, out, caught, final, fault, pairVars, gcVars>>

\* Line 50: info("Calling ..."), outside the try: a failure propagates.
EmitStart(c, accepts) ==
    /\ pc[c] = "L50"
    /\ LET call == InfoCall(branch, StartMsg(arg[c]))
           f == EmitFault(handle, call, ReprOk(arg[c]), accepts)
       IN  IF f = NoOutcome
           THEN /\ sink' = Put(call, c)
                /\ pc' = [pc EXCEPT ![c] = AfterStart]
                /\ UNCHANGED <<final, fault>>
           ELSE /\ final' = [final EXCEPT ![c] = f]
                /\ fault' = [fault EXCEPT ![c] = TRUE]
                /\ pc' = [pc EXCEPT ![c] = "done"]
                /\ UNCHANGED sink
    /\ UNCHANGED <<wrapVars, arg, out, caught, pairVars, gcVars>>

\* Line 52: fn(*args, **kwargs) runs and returns or raises; line 56: a raised
\* Exception is caught, any other BaseException leaves the wrapper.
CallTarget(c, o) ==
    /\ pc[c] = "L52"
    /\ out' = [out EXCEPT ![c] = o]
    /\ IF o.t = "return"
       THEN /\ pc' = [pc EXCEPT ![c] = "L54"]
            /\ UNCHANGED <<caught, final>>
       ELSE IF Catches(o.e)
       THEN /\ pc' = [pc EXCEPT ![c] = "L58"]
            /\ caught' = [caught EXCEPT ![c] = o.e]
            /\ UNCHANGED final
       ELSE /\ pc' = [pc EXCEPT ![c] = "done"]
            /\ final' = [final EXCEPT ![c] = Raised(o.e)]
            /\ UNCHANGED caught
    /\ UNCHANGED <<wrapVars, sink, arg, fault, pairVars, gcVars>>

\* Lines 54-55: info("... returned ...") inside the try, then return result.
\* A failure of the emission is raised inside the try and caught on line 56.
EmitSuccess(c, accepts) ==
    /\ pc[c] = "L54"
    /\ LET call == InfoCall(branch, ReturnedMsg(LocalResult(c)))
           f == EmitFault(handle, call, ReprOk(LocalResult(c)), accepts)
       IN  IF f = NoOutcome
           THEN /\ sink' = Put(call, c)
                /\ final' = [final EXCEPT ![c] = WrapperReturn(LocalResult(c))]
                /\ pc' = [pc EXCEPT ![c] = "done"]
                /\ UNCHANGED <<caught, fault>>
           ELSE /\ fault' = [fault EXCEPT ![c] = TRUE]
                /\ IF Catches(f.e)
                   THEN /\ caught' = [caught EXCEPT ![c] = f.e]
                        /\ pc' = [pc EXCEPT ![c] = "L58"]
                        /\ UNCHANGED final
                   ELSE /\ final' = [final EXCEPT ![c] = f]
                        /\ pc' = [pc EXCEPT ![c] = "done"]
                        /\ UNCHANGED caught
                /\ UNCHANGED sink
    /\ UNCHANGED <<wrapVars, arg, out, pairVars, gcVars>>

\* Lines 58-59: error("Function ... raised ..."), then raise. A failure of the
\* emission leaves the handler in place of the caught failure.
EmitError(c, accepts) ==
    /\ pc[c] = "L58"
    /\ LET call == ErrorCall(branch, RaisedMsg(caught[c]))
           f == EmitFault(handle, call, TRUE, accepts)
       IN  IF f = NoOutcome
           THEN /\ sink' = Put(call, c)
                /\ final' = [final EXCEPT ![c] = Reraise(caught[c])]
                /\ UNCHANGED fault
           ELSE /\ final' = [final EXCEPT ![c] = f]
                /\ fault' = [fault EXCEPT ![c] = TRUE]
                /\ UNCHANGED sink
    /\ pc' = [pc EXCEPT ![c] = "done"]
    /\ UNCHANGED <<wrapVars, arg, out, caught, pairVars, gcVars>>

\* ---------------------------------------------------- the pair of sinks
\* The calls one invocation of the wrapper makes on a handle that takes every
\* record, for argument x and target outcome o (lines 50-59 run to the end).
RunCalls(br, x, o) ==
    LET start == <<InfoCall(br, StartMsg(x))>>
    IN  IF o.t = "return"
        THEN IF ReprOk(o.v)
             THEN start \o <<InfoCall(br, ReturnedMsg(o.v))>>
             ELSE start \o <<ErrorCall(br, RaisedMsg(FormatFailure))>>
        ELSE IF Catches(o.e)
             THEN start \o <<ErrorCall(br, RaisedMsg(o.e))>>
             ELSE start

\* The same target wrapped twice, with handle=io.StringIO() and with
\* handle=logging.Logger, and both wrappers called with the same argument while
\* the target does the same.
PairCall(x, o) ==
    /\ Len(pairHist) < MaxPairCalls
    /\ wsink' = wsink \o RunCalls(ChooseBranch("Stream"), x, o)
    /\ lsink' = lsink \o RunCalls(ChooseBranch("Logger"), x, o)
    /\ pairHist' = Append(pairHist, <<x, o>>)
    /\ UNCHANGED <<wrapVars, callVars, gcVars>>

\* ------------------------------------------------------- get_currencies
Codes == {"USD", "EUR"}
CodeLists == UNION {[1..n -> Codes] : n \in 0..MaxCodes}

\* What "Value" holds in a currency's entry; "missing" when the key is absent
\* (.get returns None).
ValueTags == {"float", "int", "bigint", "bool", "str", "null", "missing"}
\* isinstance(value, (int, float)); bool is a subclass of int.
IsNumber(v) == v \in {"float", "int", "bigint", "bool"}
\* float(value) raises OverflowError for an int beyond the float range.
FloatOk(v) == v # "bigint"

\* A JSON value by its type. For a container, `has` is the set of keys `in`
\* finds in it: the keys of an object, the elements of a list, the substrings
\* of a string.
\* The types are "obj", "list", "str", "num" and "null".
\* x in v: TypeError for a value that is no container.
InRaises(j) == j \in {"num", "null"}
\* v[key] with a string key: defined for an object only.
SubscriptRaises(j) == j # "obj"
\* v.get: an attribute of an object (dict) only.
GetRaises(j) == j # "obj"

Entries == [j : {"obj"}, value : ValueTags] \cup [j : {"num", "str", "null"}, value : {"missing"}]
Valutes == [j : {"obj"}, has : SUBSET Codes, entry : [Codes -> Entries]]
           \cup [j : {"list", "str"}, has : {{}, {"USD"}}, entry : {[c \in Codes |-> [j |-> "null", value |-> "missing"]]}]
           \cup [j : {"num", "null"}, has : {{}}, entry : {[c \in Codes |-> [j |-> "null", value |-> "missing"]]}]
NoValute == [j |-> "null", has |-> {}, entry |-> [c \in Codes |-> [j |-> "null", value |-> "missing"]]]

\* The response: the request fails, the body is no JSON, or the body is a JSON
\* value in which `"Valute" in data` is hasValute.
Payloads == [req : {"fail"}, j : {"null"}, hasValute : {FALSE}, valute : {NoValute}]
            \cup [req : {"ok"}, j : {"notjson"}, hasValute : {FALSE}, valute : {NoValute}]
            \cup [req : {"ok"}, j : {"num", "null"}, hasValute : {FALSE}, valute : {NoValute}]
            \cup [req : {"ok"}, j : {"list", "str"}, hasValute : BOOLEAN, valute : {NoValute}]
            \cup [req : {"ok"}, j : {"obj"}, hasValute : {FALSE}, valute : {NoValute}]
            \cup [req : {"ok"}, j : {"obj"}, hasValute : {TRUE}, valute : Valutes]

GcNone == [t |-> "none", kind |-> "", keys |-> {}]
GcRaise(k) == [t |-> "raise", kind |-> k, keys |-> {}]
GcReturn(ks) == [t |-> "return", kind |-> "", keys |-> ks]

\* Lines 105-113: the loop over currency_codes from index i, result holding
\* the keys stored so far.
RECURSIVE ScanCodes(_, _, _, _)
ScanCodes(codes, valute, i, keys) ==
    IF i > Len(codes) THEN GcReturn(keys)
    ELSE LET code == codes[i]
             en == valute.entry[code]
         IN  IF InRaises(valute.j) THEN GcRaise("TypeError")
             ELSE IF code \notin valute.has THEN GcRaise("KeyError")
             ELSE IF SubscriptRaises(valute.j) THEN GcRaise("TypeError")
             ELSE IF GetRaises(en.j) THEN GcRaise("AttributeError")
             ELSE IF ~IsNumber(en.value) THEN GcRaise("TypeError")
             ELSE IF ~FloatOk(en.value) THEN GcRaise("OverflowError")
             ELSE ScanCodes(codes, valute, i + 1, keys \cup {code})

\* get_currencies(currency_codes) against response p, lines 88-115.
GetCurrenciesResult(codes, p) ==
    IF p.req = "fail" THEN GcRaise("ConnectionError")
    ELSE IF p.j = "notjson" THEN GcRaise("ValueError")
    ELSE IF InRaises(p.j) THEN GcRaise("TypeError")
    ELSE IF ~p.hasValute THEN GcRaise("KeyError")
    ELSE IF SubscriptRaises(p.j) THEN GcRaise("TypeError")
    ELSE ScanCodes(codes, p.valute, 1, {})

InitGcIdle ==
    /\ gcIn = [codes |-> <<>>, payload |-> [req |-> "fail", j |-> "null", hasValute |-> FALSE, valute |-> NoValute]]
    /\ gcOut = GcNone

InitGc ==
    /\ gcIn \in [codes : CodeLists, payload : Payloads]
    /\ gcOut = GcNone

GetCurrencies ==
    /\ gcOut = GcNone
    /\ gcOut' = GetCurrenciesResult(gcIn.codes, gcIn.payload)
    /\ UNCHANGED <<gcIn, wrapVars, callVars, pairVars>>

\* ------------------------------------------------------- specifications
Init == InitWrapper /\ InitPair /\ InitGcIdle

Next ==
    \/ LoggerBare
    \/ LoggerWith
    \/ \E c \in Calls, x \in Inputs : Invoke(c, x)
    \/ \E c \in Calls, accepts \in BOOLEAN : EmitStart(c, accepts)
    \/ \E c \in Calls, o \in TargetOutcomes : CallTarget(c, o)
    \/ \E c \in Calls, accepts \in BOOLEAN : EmitSuccess(c, accepts)
    \/ \E c \in Calls, accepts \in BOOLEAN : EmitError(c, accepts)

\* The wrapper: one wrap, then NCalls invocations that may run concurrently.
Spec == Init /\ [][Next]_vars

NextPair == \E x \in Inputs, o \in PairOutcomes : PairCall(x, o)

\* The same calls on a Writer-bound and a Logger-bound wrapper.
SpecPair == Init /\ [][NextPair]_vars

NextGc == GetCurrencies

InitGcAll == InitWrapper /\ InitPair /\ InitGc

\* get_currencies on every request and response within the bounds.
SpecGc == InitGcAll /\ [][NextGc]_vars

\* ================================================================ claims
Contains(seq, tok) == \E i \in 1..Len(seq) : seq[i] = tok
Done(c) == pc[c] = "done"
\* The target of call c has run: it has returned or raised.
Finished(c) == out[c].t # "none"

\* ---- C1
\* C1 as stated: every call whose target returned or raised (whatever it
\* raised, whatever the sink) has put exactly one outcome record, success or
\* error, in the sink by the time it ends.
C1_ExactlyOneOutcomeAlways ==
    \A c \in Calls : (Done(c) /\ Finished(c)) => Cardinality(OutcomesOf(c)) = 1

\* C1 as amended: no call ever puts two outcome records in the sink; a call
\* all of whose records were formatted and taken by the sink, and whose target
\* returned or raised a failure derived from Exception, has put exactly one;
\* a call whose target raised a failure not derived from Exception has put none.
C1_OutcomeRecords ==
    \A c \in Calls :
        /\ Cardinality(OutcomesOf(c)) <= 1
        /\ (Done(c) /\ Finished(c) /\ ~fault[c] /\ (out[c].t = "raise" => IsException(out[c].e)))
              => Cardinality(OutcomesOf(c)) = 1
        /\ (Done(c) /\ out[c].t = "raise" /\ ~IsException(out[c].e))
              => OutcomesOf(c) = {}

C1_Witness ==
    \E c, d \in Calls :
        /\ Done(c) /\ out[c].t = "raise" /\ IsException(out[c].e) /\ ~fault[c]
        /\ Cardinality(ErrorsOf(c)) = 1
        /\ Done(d) /\ out[d].t = "return" /\ ~fault[d]
        /\ Cardinality(SuccessesOf(d)) = 1

\* ---- C2
\* C2: a call puts at most one start record in the sink; its target runs only
\* from line 52, which the call reaches with exactly one start record of its
\* own in the sink and no outcome record yet; an outcome record of the call is
\* in the sink only once the target has returned or raised, and after a start
\* record of the same call.
C2_Ordering ==
    \A c \in Calls :
        /\ Cardinality(StartsOf(c)) <= 1
        /\ (pc[c] = "L52" \/ Finished(c)) => Cardinality(StartsOf(c)) = 1
        /\ pc[c] = "L52" => OutcomesOf(c) = {}
        /\ \A i \in OutcomesOf(c) :
              /\ Finished(c)
              /\ \E j \in StartsOf(c) : j < i

C2_Witness ==
    \E c \in Calls :
        /\ Done(c)
        /\ \E i \in OutcomesOf(c) : \E j \in StartsOf(c) : j < i

NamesFailure(en, e) ==
    /\ Level(en) = "ERROR"
    /\ IsErrorRecord(en)
    /\ Contains(Msg(en), FnName)
    /\ Contains(Msg(en), e.kind)
    /\ Contains(Msg(en), e.msg)

\* C4 as stated: a call whose target raised failure e (of any kind) raises e
\* itself, and an error record naming the target, the kind and the message of
\* e is in the sink when it does.
C4_AnyFailureLoggedAndReraised ==
    \A c \in Calls :
        (Done(c) /\ out[c].t = "raise" /\ ~fault[c])
            => /\ final[c] = Raised(out[c].e)
               /\ \E i \in RecordsOf(c) : NamesFailure(sink[i], out[c].e)

\* C4 as amended: a call whose target raised failure e, and whose records were
\* taken by the sink, raises e itself (same kind, same message); when the kind
\* of e derives from Exception an error record naming the target, the kind and
\* the message of e is in the sink when it does, and otherwise no error record
\* is emitted.
C4_ExceptionTransparency ==
    \A c \in Calls :
        (Done(c) /\ out[c].t = "raise" /\ ~fault[c])
            => /\ final[c].t = "raise"
               /\ final[c].e = out[c].e
               /\ IsException(out[c].e)
                     => \E i \in RecordsOf(c) : NamesFailure(sink[i], out[c].e)
               /\ ~IsException(out[c].e) => ErrorsOf(c) = {}

C4_Witness ==
    \E c \in Calls :
        /\ Done(c) /\ ~fault[c]
        /\ out[c] = Raised(Failure("ValueError", "test"))
        /\ final[c] = Raised(Failure("ValueError", "test"))
        /\ \E i \in RecordsOf(c) : NamesFailure(sink[i], out[c].e)

\* ---- C5
\* C5: a handle exposing neither info/error nor write is refused when the
\* target is wrapped: no wrapper is ever bound to one, so no call of a wrapper
\* ends with the handle's missing method as its failure.
C5_RejectedAtWrapTime ==
    \A c \in Calls :
        ~(/\ ~HasInfoError(handle) /\ ~HasWrite(handle)
          /\ branch # "none"
          /\ Done(c)
          /\ final[c] = Raised(MissingMethod))

\* ---- C6
Tag(method) == IF method = "info" THEN "INFO: " ELSE "ERROR: "

Verbatim(en) ==
    /\ en.text[1] \in {"Calling ", FnName, "Function "}
    /\ en.text[Len(en.text)] # "\n"

\* C7 as stated: when the bound handle exposes info and error, every record
\* reaches it through info (start, success) or error (error record), verbatim,
\* and write is never called.
C7_DispatchByCapability ==
    HasInfoError(handle) =>
        \A i \in 1..Len(sink) :
            /\ sink[i].method # "write"
            /\ sink[i].method = (IF IsErrorRecord(sink[i]) THEN "error" ELSE "info")
            /\ Verbatim(sink[i])

\* C7 as amended: when the bound handle is an instance of logging.Logger,
\* every record of every call reaches it through info (start, success) or
\* error (error record), verbatim, and write is never called; any other
\* handle, one exposing info and error included, is only ever called through
\* write. The branch is the one chosen at wrap time in every call.
C7_DispatchByLoggerType ==
    /\ IsLoggerInstance(handle) =>
          /\ branch = "logger"
          /\ \A i \in 1..Len(sink) :
                /\ sink[i].method # "write"
                /\ sink[i].method = (IF IsErrorRecord(sink[i]) THEN "error" ELSE "info")
                /\ Verbatim(sink[i])
    /\ (handle # "unbound" /\ ~IsLoggerInstance(handle)) =>
          /\ branch = "write"
          /\ \A i \in 1..Len(sink) : sink[i].method = "write"

C7_Witness ==
    /\ IsLoggerInstance(handle)
    /\ \E c, d \in Calls :
          /\ c # d
          /\ \E i \in ErrorsOf(c) : sink[i].method = "error"
          /\ \E j \in SuccessesOf(d) : sink[j].method = "info"

\* ---- C8
\* C8: whatever the response, get_currencies ends by returning or by raising
\* one of ConnectionError, ValueError, KeyError, TypeError.
C8_ClosedOutcomes ==
    gcOut.t = "raise" => gcOut.kind \in {"ConnectionError", "ValueError", "KeyError", "TypeError"}

\* ---- C9
\* The outcome record of a call whose target did o.
MatchesOutcome(en, o) ==
    IF o.t = "return"
    THEN Level(en) = "INFO" /\ Msg(en) = <<FnName, " returned ">> \o Repr(o.v)
    ELSE NamesFailure(en, o.e)

\* The start record of a call with argument x.
MatchesStart(en, x) ==
    /\ Level(en) = "INFO"
    /\ IsStartRecord(en)
    /\ Contains(Msg(en), FnName)
    /\ \A k \in 1..Len(Repr(x)) : Contains(Msg(en), Repr(x)[k])

C10_ErrorOnlyIfTargetRaised ==
    \A c \in Calls : ErrorsOf(c) # {} => out[c].t = "raise"

====
